---- MODULE Spec2Model ----
(***************************************************************************)
(* Model of the random-operand construction path of mars.tensor:           *)
(*   mars/tensor/expressions/random/uniform.py  (TensorUniform, uniform)   *)
(*   mars/tensor/expressions/random/weibull.py  (TensorWeibull, weibull)   *)
(* Each public function is four statements: the dtype probe, the size      *)
(* canonicalization, the operand construction and the node construction.   *)
(* Every statement is one step of a graph-building thread.                 *)
(***************************************************************************)
EXTENDS Integers, Sequences, FiniteSets, TLC

VARIABLES rsState, pc, args, kw, size, op, ret, steps, began, nCalls, nextId, nodesOf

vars == <<rsState, pc, args, kw, size, op, ret, steps, began, nCalls, nextId, nodesOf>>

(* ------------------------------ bounds --------------------------------- *)
\* graph-building threads of the concurrent specification
NThreads == 2
\* calls of the public functions made in one behaviour
MaxCalls == 3
\* number of distinct values of a random state (its stream positions)
NStates == 4

Threads == 1..NThreads
Handles == {"rs1", "rs2"}

(* ------------------------------ values --------------------------------- *)
\* Python None, and a keyword that is missing from **kw
None == "None"
Absent == "absent"

\* a distribution parameter: a python scalar or an array-like with a shape;
\* val is the scalar, or the value of every element of the array
Scalar(v) == [arr |-> FALSE, shape |-> <<>>, val |-> v]
Arr(s, v) == [arr |-> TRUE, shape |-> s, val |-> v]
NoParam == [arr |-> FALSE, shape |-> <<>>, val |-> 0 - 99]

\* the size argument: None, an int, or a tuple of ints
SizeNone == [tag |-> "none", n |-> 0, dims |-> <<>>]
SizeInt(n) == [tag |-> "int", n |-> n, dims |-> <<>>]
SizeTuple(d) == [tag |-> "tuple", n |-> 0, dims |-> d]

\* results of a step that may raise
Ok(v) == [err |-> None, val |-> v]
Raise(e, v) == [err |-> e, val |-> v]

(* --------------------------- collaborators ----------------------------- *)
\* .core.handle_array: the view of a parameter handed to the zero-size probe;
\* it carries the element value and type of the parameter, not its extents
handle_array(p) == [arr |-> FALSE, shape |-> <<>>, val |-> p.val]

\* RandomState._handle_size: None stays None, an int n becomes (n,), a tuple
\* is kept; a negative extent is refused
handle_size(s) ==
  LET d == IF s.tag = "int" THEN <<s.n>> ELSE s.dims
  IN IF s.tag = "none" THEN Ok(SizeNone)
     ELSE IF \E i \in 1..Len(d) : d[i] < 0
          THEN Raise("InvalidShapeError", SizeNone)
          ELSE Ok(SizeTuple(d))

\* NumPy broadcasting of two shapes, aligned on the right
PadLeft(s, n) == [i \in 1..n |-> IF i <= n - Len(s) THEN 1 ELSE s[i - (n - Len(s))]]
MaxLen(s1, s2) == IF Len(s1) >= Len(s2) THEN Len(s1) ELSE Len(s2)
Compatible(s1, s2) ==
  LET n == MaxLen(s1, s2)
      a == PadLeft(s1, n)
      b == PadLeft(s2, n)
  IN \A i \in 1..n : a[i] = b[i] \/ a[i] = 1 \/ b[i] = 1
Broadcast2(s1, s2) ==
  LET n == MaxLen(s1, s2)
      a == PadLeft(s1, n)
      b == PadLeft(s2, n)
  IN [i \in 1..n |-> IF a[i] = 1 THEN b[i] ELSE a[i]]

RECURSIVE broadcast_shape(_)
\* the broadcast of a list of shapes, or BroadcastShapeError
broadcast_shape(shapes) ==
  IF Len(shapes) = 0 THEN Ok(<<>>)
  ELSE LET rest == broadcast_shape(Tail(shapes))
       IN IF rest.err # None THEN rest
          ELSE IF ~Compatible(Head(shapes), rest.val)
               THEN Raise("BroadcastShapeError", <<>>)
               ELSE Ok(Broadcast2(Head(shapes), rest.val))

(* ------------------------------- numpy --------------------------------- *)
\* np.dtype(x): the canonical element type of a dtype request
NpDtype(d) ==
  CASE d = "f4" -> "float32"
    [] d = "f8" -> "float64"
    [] OTHER -> d

\* np.random.RandomState().uniform(lo, hi, size=(0,)).dtype
numpy_uniform_probe(lo, hi) == Ok("float64")

\* np.random.RandomState().weibull(a, size=(0,)).dtype; numpy refuses a < 0
numpy_weibull_probe(a) ==
  IF a.val < 0 THEN Raise("ParameterDomainError", None) ELSE Ok("float64")

(* ------------------------------ operands ------------------------------- *)
NoOp == [cls |-> "none", size |-> SizeNone, state |-> 0, dtype |-> None,
         gpu |-> None, params |-> <<>>, id |-> 0]
NoNode == [op |-> 0, inputs |-> <<>>, shape |-> <<>>, chunks |-> SizeNone]
NoRet == [err |-> None, node |-> NoNode]

\* the operand without its object identity
Fields(o) == [o EXCEPT !.id = 0]

\* TensorRandomOperandMixin.new_tensor(inputs, None, raw_chunks=chunks):
\* array-like parameters become declared inputs, scalars are embedded in the
\* operand; the shape is the operand's size when resolved, else the broadcast
new_tensor(o, fields, inputs, chunks) ==
  LET idx == {i \in 1..Len(inputs) : inputs[i].arr}
      arrs == SelectSeq(inputs, LAMBDA p : p.arr)
      b == broadcast_shape([i \in 1..Len(arrs) |-> arrs[i].shape])
      names == SelectSeq(fields, LAMBDA f : \E i \in idx : fields[i] = f)
      node == [op |-> o.id, inputs |-> names,
               shape |-> IF o.size.tag # "none" THEN o.size.dims ELSE b.val,
               chunks |-> chunks]
      o2 == [o EXCEPT !.params = [i \in 1..Len(fields) |->
                [field |-> fields[i], const |-> ~inputs[i].arr, val |-> inputs[i]]]]
  IN IF b.err # None THEN Raise(b.err, [node |-> NoNode, op |-> o])
     ELSE Ok([node |-> node, op |-> o2])

(* ----------------------------- uniform.py ------------------------------ *)
\* TensorUniform._input_fields_
UniformInputFields == <<"_low", "_high">>

\* an __init__ that loses the size it was given
TensorUniformInitNoSize(sz, state, dtype, gpu, id) ==
  [cls |-> "TensorUniform", size |-> SizeNone, state |-> state,
   dtype |-> IF dtype # None THEN NpDtype(dtype) ELSE dtype,
   gpu |-> gpu, params |-> <<>>, id |-> id]

\* TensorUniform.__init__
TensorUniformInit(sz, state, dtype, gpu, id) ==
  [cls |-> "TensorUniform", size |-> sz, state |-> state,
   dtype |-> IF dtype # None THEN NpDtype(dtype) ELSE dtype,
   gpu |-> gpu, params |-> <<>>, id |-> id]

\* a __call__ that passes low twice, high twice, or the two swapped
TensorUniformCallLowLow(o, low, high, chunks) ==
  new_tensor(o, UniformInputFields, <<low, low>>, chunks)
TensorUniformCallHighHigh(o, low, high, chunks) ==
  new_tensor(o, UniformInputFields, <<high, high>>, chunks)
TensorUniformCallSwapped(o, low, high, chunks) ==
  new_tensor(o, UniformInputFields, <<high, low>>, chunks)

\* TensorUniform.__call__
TensorUniformCall(o, low, high, chunks) ==
  new_tensor(o, UniformInputFields, <<low, high>>, chunks)

\* uniform, lines 116-118: kw['dtype'] after the if statement
uniform_dtype(k, low, high) ==
  IF k = Absent THEN numpy_uniform_probe(handle_array(low), handle_array(high))
  ELSE Ok(k)

\* a probe that draws one sample from the caller's random state
uniform_probe_on_caller(rs, h) == [rs EXCEPT ![h] = (@ + 1) % NStates]

\* uniform, line 117: the probe samples from np.random.RandomState(), a new
\* generator, so the random states of the callers are what they were
uniform_probe_states(rs, h) == rs

\* the operand built before the size is canonicalized
UniformNextOpFirst(p) ==
  CASE p = "probe" -> "op"
    [] p = "op" -> "size"
    [] p = "size" -> "node"
    [] OTHER -> "done"

\* uniform, lines 116-121: the order of the statements
UniformNext(p) ==
  CASE p = "probe" -> "size"
    [] p = "size" -> "op"
    [] p = "op" -> "node"
    [] OTHER -> "done"

(* ----------------------------- weibull.py ------------------------------ *)
\* TensorWeibull._input_fields_
WeibullInputFields == <<"_a">>

\* TensorWeibull.__init__
TensorWeibullInit(sz, state, dtype, gpu, id) ==
  [cls |-> "TensorWeibull", size |-> sz, state |-> state,
   dtype |-> IF dtype # None THEN NpDtype(dtype) ELSE dtype,
   gpu |-> gpu, params |-> <<>>, id |-> id]

\* TensorWeibull.__call__
TensorWeibullCall(o, a, chunks) ==
  new_tensor(o, WeibullInputFields, <<a>>, chunks)

\* weibull, lines 132-134: kw['dtype'] after the if statement
weibull_dtype(k, a) ==
  IF k = Absent THEN numpy_weibull_probe(handle_array(a)) ELSE Ok(k)

\* a probe that draws one sample from the caller's random state
weibull_probe_on_caller(rs, h) == [rs EXCEPT ![h] = (@ + 1) % NStates]

\* weibull, line 133: the probe samples from a new generator
weibull_probe_states(rs, h) == rs

\* weibull, lines 132-137: the order of the statements
WeibullNext(p) ==
  CASE p = "probe" -> "size"
    [] p = "size" -> "op"
    [] p = "op" -> "node"
    [] OTHER -> "done"

(* --------------------------- whole functions --------------------------- *)
\* uniform(random_state, low, high, size, chunks, gpu, **kw) run without
\* interruption from the random states rs; id names the operand it builds
uniform(rs, a, id) ==
  LET d == uniform_dtype(a.dtype, a.low, a.high)
      rs1 == IF a.dtype = Absent THEN uniform_probe_states(rs, a.rs) ELSE rs
      s == handle_size(a.size)
      o == TensorUniformInit(s.val, rs1[a.rs], d.val, a.gpu, id)
      n == TensorUniformCall(o, a.low, a.high, a.chunks)
  IN IF d.err # None THEN [err |-> d.err, op |-> NoOp, node |-> NoNode]
     ELSE IF s.err # None THEN [err |-> s.err, op |-> NoOp, node |-> NoNode]
     ELSE IF n.err # None THEN [err |-> n.err, op |-> o, node |-> NoNode]
     ELSE [err |-> None, op |-> n.val.op, node |-> n.val.node]

\* weibull(random_state, a, size, chunks, gpu, **kw) run without interruption
weibull(rs, a, id) ==
  LET d == weibull_dtype(a.dtype, a.a)
      rs1 == IF a.dtype = Absent THEN weibull_probe_states(rs, a.rs) ELSE rs
      s == handle_size(a.size)
      o == TensorWeibullInit(s.val, rs1[a.rs], d.val, a.gpu, id)
      n == TensorWeibullCall(o, a.a, a.chunks)
  IN IF d.err # None THEN [err |-> d.err, op |-> NoOp, node |-> NoNode]
     ELSE IF s.err # None THEN [err |-> s.err, op |-> NoOp, node |-> NoNode]
     ELSE IF n.err # None THEN [err |-> n.err, op |-> o, node |-> NoNode]
     ELSE [err |-> None, op |-> n.val.op, node |-> n.val.node]

(* ------------------------------- inputs -------------------------------- *)
Gpus == {None, "True"}
Chunks == {SizeNone, SizeInt(2)}
Dtypes == {Absent, None, "f4"}
Sizes == {SizeNone, SizeInt(10), SizeInt(0 - 1), SizeTuple(<<2, 3>>)}
Lows == {Scalar(5), Arr(<<2>>, 0), Arr(<<3, 1>>, 0)}
Highs == {Scalar(5), Arr(<<3>>, 1), Arr(<<1, 4>>, 1)}
As == {Scalar(5), Scalar(0), Scalar(0 - 1), Arr(<<3>>, 2)}

ArgsOf(fn, H, L, Hi, A, S, C, G, D) ==
  [fn : {fn}, rs : H, low : L, high : Hi, a : A, size : S, chunks : C, gpu : G, dtype : D]

\* the calls of the single caller, who holds one random state
UniformArgs == ArgsOf("uniform", {"rs1"}, Lows, Highs, {NoParam}, Sizes, Chunks, Gpus, Dtypes)
WeibullArgs == ArgsOf("weibull", {"rs1"}, {NoParam}, {NoParam}, As, Sizes, Chunks, Gpus, Dtypes)

\* the calls the concurrent threads make
ThreadUniformArgs ==
  ArgsOf("uniform", Handles, {Scalar(0), Arr(<<2>>, 0)}, {Arr(<<3>>, 1)}, {NoParam},
         {SizeNone}, {SizeNone}, {None}, {Absent})
  \cup ArgsOf("uniform", {"rs1"}, {Scalar(0)}, {Arr(<<3>>, 1)}, {NoParam},
              {SizeNone}, {SizeNone}, {None}, {"f4"})
ThreadWeibullArgs ==
  ArgsOf("weibull", {"rs1"}, {NoParam}, {NoParam}, {Scalar(5), Scalar(0 - 1)},
         {SizeInt(3), SizeInt(0 - 1)}, {SizeNone}, {None}, {Absent})

NoArgs == [fn |-> "none", rs |-> "rs1", low |-> NoParam, high |-> NoParam, a |-> NoParam,
           size |-> SizeNone, chunks |-> SizeNone, gpu |-> None, dtype |-> Absent]

(* -------------------------------- state -------------------------------- *)
\* rsState[h]  random_state._state of the caller's RandomState h
\* pc[t]       the statement thread t executes next
\* args[t]     the arguments of the call thread t is in
\* kw[t]       kw['dtype'] of that call; size[t], op[t] its locals size, op
\* ret[t]      what the call returned or raised
\* steps[t]    the statements the call has executed
\* began[t]    the random states when the call began
\* nodesOf[i]  the number of graph nodes built from operand i
Init ==
  /\ rsState = [h \in Handles |-> IF h = "rs1" THEN 0 ELSE 1]
  /\ pc = [t \in Threads |-> "idle"]
  /\ args = [t \in Threads |-> NoArgs]
  /\ kw = [t \in Threads |-> Absent]
  /\ size = [t \in Threads |-> SizeNone]
  /\ op = [t \in Threads |-> NoOp]
  /\ ret = [t \in Threads |-> NoRet]
  /\ steps = [t \in Threads |-> <<>>]
  /\ began = [t \in Threads |-> rsState]
  /\ nCalls = 0
  /\ nextId = 1
  /\ nodesOf = <<>>

\* thread t calls a public function with the arguments a
Enter(t, a) ==
  /\ pc[t] \in {"idle", "done", "raised"}
  /\ nCalls < MaxCalls
  /\ nCalls' = nCalls + 1
  /\ pc' = [pc EXCEPT ![t] = "probe"]
  /\ args' = [args EXCEPT ![t] = a]
  /\ kw' = [kw EXCEPT ![t] = a.dtype]
  /\ size' = [size EXCEPT ![t] = a.size]
  /\ op' = [op EXCEPT ![t] = NoOp]
  /\ ret' = [ret EXCEPT ![t] = NoRet]
  /\ steps' = [steps EXCEPT ![t] = <<>>]
  /\ began' = [began EXCEPT ![t] = rsState]
  /\ UNCHANGED <<rsState, nextId, nodesOf>>

\* the statement of thread t raises e: the call ends without a node
Raised(t, e) ==
  /\ pc' = [pc EXCEPT ![t] = "raised"]
  /\ ret' = [ret EXCEPT ![t] = [err |-> e, node |-> NoNode]]

At(t, fn, p) == pc[t] = p /\ args[t].fn = fn

\* a thread calls uniform(random_state, low, high, size, chunks, gpu, **kw)
CallUniform(t, A) ==
  \E a \in A :
    /\ a.fn = "uniform"
    /\ Enter(t, a)

\* uniform.py 116-118
UniformProbe(t) ==
  /\ At(t, "uniform", "probe")
  /\ LET r == uniform_dtype(kw[t], args[t].low, args[t].high)
     IN /\ steps' = [steps EXCEPT ![t] = IF kw[t] = Absent THEN Append(@, "probe") ELSE @]
        /\ rsState' = IF kw[t] = Absent THEN uniform_probe_states(rsState, args[t].rs)
                      ELSE rsState
        /\ IF r.err # None
           THEN Raised(t, r.err) /\ UNCHANGED kw
           ELSE /\ kw' = [kw EXCEPT ![t] = r.val]
                /\ pc' = [pc EXCEPT ![t] = UniformNext("probe")]
                /\ UNCHANGED ret
  /\ UNCHANGED <<args, size, op, began, nCalls, nextId, nodesOf>>

\* uniform.py 119
UniformSize(t) ==
  /\ At(t, "uniform", "size")
  /\ LET r == handle_size(size[t])
     IN /\ steps' = [steps EXCEPT ![t] = Append(@, "size")]
        /\ IF r.err # None
           THEN Raised(t, r.err) /\ UNCHANGED size
           ELSE /\ size' = [size EXCEPT ![t] = r.val]
                /\ pc' = [pc EXCEPT ![t] = UniformNext("size")]
                /\ UNCHANGED ret
  /\ UNCHANGED <<rsState, args, kw, op, began, nCalls, nextId, nodesOf>>

\* uniform.py 120
UniformOp(t) ==
  /\ At(t, "uniform", "op")
  /\ steps' = [steps EXCEPT ![t] = Append(@, "op")]
  /\ op' = [op EXCEPT ![t] = TensorUniformInit(size[t], rsState[args[t].rs], kw[t],
                                               args[t].gpu, nextId)]
  /\ nextId' = nextId + 1
  /\ nodesOf' = Append(nodesOf, 0)
  /\ pc' = [pc EXCEPT ![t] = UniformNext("op")]
  /\ UNCHANGED <<rsState, args, kw, size, ret, began, nCalls>>

\* uniform.py 121
UniformNode(t) ==
  /\ At(t, "uniform", "node")
  /\ LET r == TensorUniformCall(op[t], args[t].low, args[t].high, args[t].chunks)
     IN /\ steps' = [steps EXCEPT ![t] = Append(@, "node")]
        /\ IF r.err # None
           THEN Raised(t, r.err) /\ UNCHANGED <<op, nodesOf>>
           ELSE /\ op' = [op EXCEPT ![t] = r.val.op]
                /\ ret' = [ret EXCEPT ![t] = [err |-> None, node |-> r.val.node]]
                /\ nodesOf' = [nodesOf EXCEPT ![r.val.node.op] = @ + 1]
                /\ pc' = [pc EXCEPT ![t] = UniformNext("node")]
  /\ UNCHANGED <<rsState, args, kw, size, began, nCalls, nextId>>

\* a thread calls weibull(random_state, a, size, chunks, gpu, **kw)
CallWeibull(t, A) ==
  \E a \in A :
    /\ a.fn = "weibull"
    /\ Enter(t, a)

\* weibull.py 132-134
WeibullProbe(t) ==
  /\ At(t, "weibull", "probe")
  /\ LET r == weibull_dtype(kw[t], args[t].a)
     IN /\ steps' = [steps EXCEPT ![t] = IF kw[t] = Absent THEN Append(@, "probe") ELSE @]
        /\ rsState' = IF kw[t] = Absent THEN weibull_probe_states(rsState, args[t].rs)
                      ELSE rsState
        /\ IF r.err # None
           THEN Raised(t, r.err) /\ UNCHANGED kw
           ELSE /\ kw' = [kw EXCEPT ![t] = r.val]
                /\ pc' = [pc EXCEPT ![t] = WeibullNext("probe")]
                /\ UNCHANGED ret
  /\ UNCHANGED <<args, size, op, began, nCalls, nextId, nodesOf>>

\* weibull.py 135
WeibullSize(t) ==
  /\ At(t, "weibull", "size")
  /\ LET r == handle_size(size[t])
     IN /\ steps' = [steps EXCEPT ![t] = Append(@, "size")]
        /\ IF r.err # None
           THEN Raised(t, r.err) /\ UNCHANGED size
           ELSE /\ size' = [size EXCEPT ![t] = r.val]
                /\ pc' = [pc EXCEPT ![t] = WeibullNext("size")]
                /\ UNCHANGED ret
  /\ UNCHANGED <<rsState, args, kw, op, began, nCalls, nextId, nodesOf>>

\* weibull.py 136
WeibullOp(t) ==
  /\ At(t, "weibull", "op")
  /\ steps' = [steps EXCEPT ![t] = Append(@, "op")]
  /\ op' = [op EXCEPT ![t] = TensorWeibullInit(size[t], rsState[args[t].rs], kw[t],
                                               args[t].gpu, nextId)]
  /\ nextId' = nextId + 1
  /\ nodesOf' = Append(nodesOf, 0)
  /\ pc' = [pc EXCEPT ![t] = WeibullNext("op")]
  /\ UNCHANGED <<rsState, args, kw, size, ret, began, nCalls>>

\* weibull.py 137
WeibullNode(t) ==
  /\ At(t, "weibull", "node")
  /\ LET r == TensorWeibullCall(op[t], args[t].a, args[t].chunks)
     IN /\ steps' = [steps EXCEPT ![t] = Append(@, "node")]
        /\ IF r.err # None
           THEN Raised(t, r.err) /\ UNCHANGED <<op, nodesOf>>
           ELSE /\ op' = [op EXCEPT ![t] = r.val.op]
                /\ ret' = [ret EXCEPT ![t] = [err |-> None, node |-> r.val.node]]
                /\ nodesOf' = [nodesOf EXCEPT ![r.val.node.op] = @ + 1]
                /\ pc' = [pc EXCEPT ![t] = WeibullNext("node")]
  /\ UNCHANGED <<rsState, args, kw, size, began, nCalls, nextId>>

\* one caller, every combination of arguments
Next ==
  \/ CallUniform(1, UniformArgs)
  \/ CallWeibull(1, WeibullArgs)
  \/ UniformProbe(1) \/ UniformSize(1) \/ UniformOp(1) \/ UniformNode(1)
  \/ WeibullProbe(1) \/ WeibullSize(1) \/ WeibullOp(1) \/ WeibullNode(1)

Spec == Init /\ [][Next]_vars

\* several graph-building threads, interleaved statement by statement
NextThreads ==
  \E t \in Threads :
    \/ CallUniform(t, ThreadUniformArgs)
    \/ CallWeibull(t, ThreadWeibullArgs)
    \/ UniformProbe(t) \/ UniformSize(t) \/ UniformOp(t) \/ UniformNode(t)
    \/ WeibullProbe(t) \/ WeibullSize(t) \/ WeibullOp(t) \/ WeibullNode(t)

SpecThreads == Init /\ [][NextThreads]_vars

(* ------------------------------- claims -------------------------------- *)
Finished(t) == pc[t] \in {"done", "raised"}
Returned(t) == pc[t] = "done"

\* the canonical form of an explicit size: an int n is (n,), a tuple is itself
Canonical(s) == IF s.tag = "int" THEN <<s.n>> ELSE s.dims
ValidSize(s) ==
  /\ s.tag # "none"
  /\ \A i \in 1..Len(Canonical(s)) : Canonical(s)[i] >= 0
ScalarParams(a) == ~a.low.arr /\ ~a.high.arr /\ ~a.a.arr

\* C1: the operand of every call of uniform or weibull that returns a node
\* has a dtype that is not None, whatever dtype keyword the caller passed
\* (omitted, a concrete type, or None).
C1_DtypeNeverNone ==
  \A t \in Threads : Returned(t) => op[t].dtype # None

\* C2: for every valid explicit size passed together with scalar parameters
\* the returned node's shape is the canonical form of that size, and uniform
\* with such arguments (low=5.0, high=5.0, size=10 among them) does not raise.
C2_ExplicitSizeShape ==
  \A t \in Threads :
    (ValidSize(args[t].size) /\ ScalarParams(args[t])) =>
      /\ Returned(t) => ret[t].node.shape = Canonical(args[t].size)
      /\ (Finished(t) /\ args[t].fn = "uniform") => Returned(t)

C2_Witness ==
  \E t \in Threads :
    /\ Returned(t) /\ args[t].fn = "uniform"
    /\ args[t].low = Scalar(5) /\ args[t].high = Scalar(5)
    /\ args[t].size = SizeInt(10)
    /\ ret[t].node.shape = <<10>>

\* C3: with size None and array-like low and high of broadcast-compatible
\* shapes, uniform returns a node whose shape is the NumPy broadcast of the
\* two shapes ((3,1) and (1,4) give (3,4)); whenever a size was given the
\* shape is that size, and the broadcast is used only when none was.
C3_BroadcastShape ==
  \A t \in Threads :
    (Finished(t) /\ args[t].fn = "uniform") =>
      LET lo == args[t].low
          hi == args[t].high
      IN /\ (args[t].size.tag = "none" /\ lo.arr /\ hi.arr
             /\ Compatible(lo.shape, hi.shape)) =>
               /\ Returned(t)
               /\ ret[t].node.shape = Broadcast2(lo.shape, hi.shape)
               /\ (lo.shape = <<3, 1>> /\ hi.shape = <<1, 4>>) =>
                     ret[t].node.shape = <<3, 4>>
         /\ (Returned(t) /\ args[t].size.tag # "none") =>
               ret[t].node.shape = Canonical(args[t].size)

C3_Witness ==
  \E t \in Threads :
    /\ Returned(t) /\ args[t].fn = "uniform" /\ args[t].size.tag = "none"
    /\ args[t].low.shape = <<3, 1>> /\ args[t].high.shape = <<1, 4>>
    /\ ret[t].node.shape = <<3, 4>>

C5_DomainErrorNoNode ==
  \A t \in Threads :
    (args[t].fn = "weibull" /\ args[t].a.val <= 0) =>
      /\ ret[t].node = NoNode
      /\ nodesOf = <<>> \/ op[t].id = 0 \/ nodesOf[op[t].id] = 0
      /\ Finished(t) => pc[t] = "raised"
      /\ (Finished(t) /\ (args[t].size.tag = "none" \/ ValidSize(args[t].size))) =>
            ret[t].err = "ParameterDomainError"

\* the number of times the field f is among the declared inputs
Occurrences(inputs, f) == Cardinality({i \in 1..Len(inputs) : inputs[i] = f})
InputOnce(t, f, p) ==
  /\ Occurrences(ret[t].node.inputs, f) = IF p.arr THEN 1 ELSE 0
  /\ ~p.arr => \E i \in 1..Len(op[t].params) :
                 op[t].params[i] = [field |-> f, const |-> TRUE, val |-> p]

\* C7: in a returned node every array-like parameter (low, high; a) is
\* among the declared inputs exactly once and no scalar parameter is: a
\* scalar is held as a constant in the operand's parameter fields.
C7_InputsRegisteredOnce ==
  \A t \in Threads :
    Returned(t) =>
      IF args[t].fn = "uniform"
      THEN /\ InputOnce(t, "_low", args[t].low)
           /\ InputOnce(t, "_high", args[t].high)
           /\ Len(ret[t].node.inputs) =
                 Cardinality({f \in {"_low", "_high"} :
                                IF f = "_low" THEN args[t].low.arr ELSE args[t].high.arr})
      ELSE /\ InputOnce(t, "_a", args[t].a)
           /\ Len(ret[t].node.inputs) = IF args[t].a.arr THEN 1 ELSE 0

C7_Witness ==
  \E t \in Threads :
    /\ Returned(t) /\ args[t].fn = "uniform"
    /\ ~args[t].low.arr /\ args[t].high.arr
    /\ ret[t].node.inputs = <<"_high">>

Built(t) == op[t].id # 0
Probed(t) == Len(steps[t]) > 0 /\ steps[t][1] = "probe"

\* C6: the dtype probe never samples from the caller's random state: no
\* step changes random_state._state, and the operand of every call carries
\* the _state its handle had when the call began, so that the operands of
\* two calls made with the same handle carry the same reference.
C6_CallerStateUntouched ==
  /\ [][rsState' = rsState]_vars
  /\ [](\A t \in Threads : Built(t) => op[t].state = began[t][args[t].rs])
  /\ [](\A t, u \in Threads :
          (Built(t) /\ Built(u) /\ args[t].rs = args[u].rs) => op[t].state = op[u].state)

C6_Witness ==
  \E t, u \in Threads :
    /\ t # u /\ Returned(t) /\ Returned(u)
    /\ Probed(t) /\ Probed(u)
    /\ args[t].rs = args[u].rs
    /\ op[t].state = rsState[args[t].rs]

\* C8: two calls with identical parameters, size, dtype, gpu flag and
\* random-state handle build operands that are equal field by field, whatever
\* the order of the two calls and whatever calls were made in between.
C8_Idempotent ==
  \A t, u \in Threads :
    (Built(t) /\ Built(u) /\ Finished(t) /\ Finished(u) /\ args[t] = args[u]) =>
      /\ Fields(op[t]) = Fields(op[u])
      /\ ret[t].err = ret[u].err
      /\ ret[t].node.shape = ret[u].node.shape

C8_Witness ==
  \E t, u \in Threads :
    /\ t # u /\ Returned(t) /\ Returned(u)
    /\ args[t] = args[u]
    /\ nCalls >= 3
    /\ Fields(op[t]) = Fields(op[u])

\* what the call of thread t gives when it runs alone from the state it began in
Alone(t) ==
  IF args[t].fn = "uniform" THEN uniform(began[t], args[t], op[t].id)
  ELSE weibull(began[t], args[t], op[t].id)

\* C9: in every interleaving of the calls of several threads, sharing random
\* states or not, the result of each call (error, operand fields, node) is
\* the result the same call gives when run alone.
C9_InterleavingEqualsAlone ==
  \A t \in Threads :
    Finished(t) =>
      /\ ret[t].err = Alone(t).err
      /\ ret[t].node = Alone(t).node
      /\ op[t] = Alone(t).op

C9_Witness ==
  \E t, u \in Threads :
    /\ t # u /\ Returned(t) /\ pc[u] = "node"
    /\ args[t].rs = args[u].rs
    /\ Probed(t) /\ Probed(u)
    /\ op[u].id < op[t].id

\* the statements of a call in the order of the source
Order(t) ==
  (IF args[t].dtype = Absent THEN <<"probe">> ELSE <<>>) \o <<"size", "op", "node">>

====
